---- MODULE Spec2Model ----
(***************************************************************************)
(* Rlex<S, T>: a cursor over the characters of a string (src/lib.rs).      *)
(* A char is its Unicode scalar value, a String is the sequence of its     *)
(* UTF-8 bytes, and a usize index i of the code is position i + 1 of a     *)
(* TLA+ sequence.                                                          *)
(***************************************************************************)
EXTENDS Integers, Sequences, FiniteSets, TLC

\* ---------------------------------------------------------------- bounds
\* longest source string generated over Alphabet
MaxLen == 3
\* largest `by` handed to next_by / prev_by / peek_by / peek_back_by / *_by_is
MaxBy == 3
\* largest index handed to goto_pos and str_from_rng
MaxPos == 4
\* most tokens held on the token stack
MaxTokens == 2
\* most chars held in the collection buffer
MaxCollect == 2
\* lines the trace log may hold when a traced call starts: the caller clears
\* the log before it holds this many
MaxTrace == 1

\* ------------------------------------------------------------- constants
\* usize::MAX, what 0 - 1 wraps to when overflow checks are off; the value
\* is the largest integer TLC represents and stands for 2^64 - 1
USIZE_MAX == 2147483647

DQUOTE == 34
SQUOTE == 39
BACKSLASH == 92

\* the chars of the generated sources: '"' (1 byte) and U+20AC (3 bytes)
Alphabet == {DQUOTE, 8364}
\* a character that is in no generated source ('z')
AbsentChars == {122}

\* "abcd", the source of the unit tests
ABCD == <<97, 98, 99, 100>>

\* "\"Hello, I am Quoted!\"" and "Hello, I am not Quoted!" of test_rlex_is_in_quote
QUOTED ==
    <<34, 72, 101, 108, 108, 111, 44, 32, 73, 32, 97, 109, 32,
      81, 117, 111, 116, 101, 100, 33, 34>>
NOT_QUOTED ==
    <<72, 101, 108, 108, 111, 44, 32, 73, 32, 97, 109, 32, 110, 111, 116, 32,
      81, 117, 111, 116, 101, 100, 33>>
\* "<p name='bob'>" of test_rlex_is_in_quote
TAG == <<60, 112, 32, 110, 97, 109, 101, 61, 39, 98, 111, 98, 39, 62>>
QuoteSources == {QUOTED, NOT_QUOTED, TAG}
\* the chars test_rlex_is_in_quote searches for, 'b' and '\'', and '"'
QuoteSearchChars == {98, 39, 34}

\* the return value of a method that returns nothing or the cursor itself
Unit == "unit"
\* Option::None and Option::Some(x)
None == <<>>
Some(x) == <<x>>
\* what a panicking chars[i] yields in place of a char, and a panicking
\* &source[a..b] in place of a string (no char and no byte is negative)
PanicChar == 0 - 1
PanicStr == <<PanicChar>>

Min(a, b) == IF a <= b THEN a ELSE b
Max(a, b) == IF a >= b THEN a ELSE b

\* all sequences over S of length 0 .. n
SeqsUpTo(S, n) == UNION {[1..k -> S] : k \in 0..n}

\* a source with one char of each encoded width: U+00E9 (2 bytes), '"' (1),
\* U+1F600 (4), U+20AC (3)
MIXED == <<233, DQUOTE, 128512, 8364>>

\* the source strings a cursor is constructed from
Sources == SeqsUpTo(Alphabet, MaxLen) \cup {ABCD, MIXED}

\* --------------------------------------------------------- UTF-8 (std)
\* mutant of len_utf8: every char counted as one byte
len_utf8_one_byte(c) == 1

\* char::len_utf8
len_utf8(c) == IF c < 128 THEN 1 ELSE IF c < 2048 THEN 2 ELSE IF c < 65536 THEN 3 ELSE 4

\* the UTF-8 bytes of one char
EncodeChar(c) ==
    IF c < 128 THEN <<c>>
    ELSE IF c < 2048 THEN <<192 + (c \div 64), 128 + (c % 64)>>
    ELSE IF c < 65536 THEN
        <<224 + (c \div 4096), 128 + ((c \div 64) % 64), 128 + (c % 64)>>
    ELSE <<240 + (c \div 262144), 128 + ((c \div 4096) % 64),
           128 + ((c \div 64) % 64), 128 + (c % 64)>>

RECURSIVE Utf8Encode(_)
\* the bytes of a string given as its chars (&str / String contents)
Utf8Encode(cs) ==
    IF cs = <<>> THEN <<>> ELSE EncodeChar(Head(cs)) \o Utf8Encode(Tail(cs))

\* the number of bytes the sequence starting with lead byte b occupies
LeadWidth(b) == IF b < 128 THEN 1 ELSE IF b < 224 THEN 2 ELSE IF b < 240 THEN 3 ELSE 4

\* the char encoded by the bytes bs (one complete sequence)
DecodeChar(bs) ==
    IF Len(bs) = 1 THEN bs[1]
    ELSE IF Len(bs) = 2 THEN (bs[1] - 192) * 64 + (bs[2] - 128)
    ELSE IF Len(bs) = 3 THEN
        (bs[1] - 224) * 4096 + (bs[2] - 128) * 64 + (bs[3] - 128)
    ELSE (bs[1] - 240) * 262144 + (bs[2] - 128) * 4096
         + (bs[3] - 128) * 64 + (bs[4] - 128)

RECURSIVE Chars(_)
\* str::chars().collect(): the chars of a valid UTF-8 byte string
Chars(bs) ==
    IF bs = <<>> THEN <<>>
    ELSE LET w == LeadWidth(bs[1])
         IN  <<DecodeChar(SubSeq(bs, 1, w))>> \o Chars(SubSeq(bs, w + 1, Len(bs)))

\* str::is_char_boundary(i)
IsCharBoundary(bs, i) ==
    \/ i = 0
    \/ i = Len(bs)
    \/ i < Len(bs) /\ ~(bs[i + 1] >= 128 /\ bs[i + 1] < 192)

\* &s[from..to] of a String: panics unless from <= to <= len and both ends
\* are char boundaries
StrSlice(bs, from, to) ==
    IF from <= to /\ to <= Len(bs) /\ IsCharBoundary(bs, from) /\ IsCharBoundary(bs, to)
    THEN SubSeq(bs, from + 1, to)
    ELSE PanicStr

RECURSIVE SumWidths(_)
\* .iter().map(|c| c.len_utf8()).sum::<usize>() over a slice of chars
SumWidths(cs) == IF cs = <<>> THEN 0 ELSE len_utf8(Head(cs)) + SumWidths(Tail(cs))

\* &v[from..to] of a Vec<char>, 0-based and end-exclusive
VecSlice(v, from, to) == SubSeq(v, from + 1, to)

\* ----------------------------------------------------------------- state
VARIABLES
    source,           \* String: the bytes of the source text
    chars,            \* Vec<char>
    position,         \* usize
    max_position,     \* usize
    marked_position,  \* usize
    state,            \* S
    collection,       \* Vec<char>
    collection_str,   \* String
    tokens,           \* Vec<T>
    should_trace,     \* bool
    trace,            \* Vec<String>
    status,           \* "unbuilt", "ok" (a cursor exists), "panic" (new panicked)
    call,             \* the last public call: its name, arguments, and the
                      \* position and mark it started from
    ret               \* what the last public call returned

vars == <<source, chars, position, max_position, marked_position, state,
          collection, collection_str, tokens, should_trace, trace, status, call, ret>>

\* the cursor as one value (self)
Self ==
    [source |-> source, chars |-> chars, position |-> position,
     max_position |-> max_position, marked_position |-> marked_position,
     state |-> state, collection |-> collection, collection_str |-> collection_str,
     tokens |-> tokens, should_trace |-> should_trace, trace |-> trace]

\* the cursor after a method has run on it
Store(c) ==
    /\ source' = c.source
    /\ chars' = c.chars
    /\ position' = c.position
    /\ max_position' = c.max_position
    /\ marked_position' = c.marked_position
    /\ state' = c.state
    /\ collection' = c.collection
    /\ collection_str' = c.collection_str
    /\ tokens' = c.tokens
    /\ should_trace' = c.should_trace
    /\ trace' = c.trace

\* enum State of the unit tests
States == {"Init", "Open", "Closed"}

\* enum Token of the unit tests: the tokens pushed
Tokens == {"Tok1", "Tok2"}

\* a public call: its name and arguments, and the position, mark, tokens,
\* collection and state it started from
Call(op, args) ==
    [op |-> op, args |-> args, p0 |-> position, m0 |-> marked_position,
     t0 |-> tokens, c0 |-> collection, s0 |-> state]

\* the call record of a cursor on which nothing but `what` has happened
FirstCall(what, args) ==
    [op |-> what, args |-> args, p0 |-> 0, m0 |-> 0,
     t0 |-> <<>>, c0 |-> <<>>, s0 |-> "Init"]

\* ------------------------------------------------------------ the trace
\* format!("name(args)") and format!("name(args) -> result")
Msg(name, args) == <<name, args>>
MsgRes(name, args, res) == <<name, args, "->", res>>

\* mutant of trace_log: lines are numbered from one
trace_log_from_one(c, msg) ==
    [c EXCEPT !.trace = Append(@, <<Len(c.trace) + 1, ":", msg, "\n">>)]

\* Rlex::trace_log: push format!("{}:{}", self.trace.len(), msg + "\n")
trace_log(c, msg) == [c EXCEPT !.trace = Append(@, <<Len(c.trace), ":", msg, "\n">>)]

\* mutant of Traced: the line is logged whether tracing is on or off
Traced_always(c, msg) == trace_log(c, msg)

\* if self.should_trace { self.trace_log(..) }
Traced(c, msg) == IF c.should_trace THEN trace_log(c, msg) ELSE c

\* a method's outcome: the cursor after it and the value it returns
Out(c, v) == [c |-> c, v |-> v]

\* Rlex::trace_on
trace_on(c) == [c EXCEPT !.should_trace = TRUE]

\* Rlex::trace_off
trace_off(c) == [c EXCEPT !.should_trace = FALSE]

RECURSIVE Concat(_)
\* for s in &self.trace { trace += &s; }
Concat(lines) == IF lines = <<>> THEN <<>> ELSE Head(lines) \o Concat(Tail(lines))

\* Rlex::trace_emit
trace_emit(c) == Concat(c.trace)

\* Rlex::trace_clear
trace_clear(c) == [c EXCEPT !.trace = <<>>]

\* ---------------------------------------------------------- construction
\* a - b on usize with overflow checks off: wraps modulo usize::MAX + 1
WrappingSub(a, b) == IF a >= b THEN a - b ELSE USIZE_MAX - (b - a) + 1

\* Rlex::new(source, state); src is the string as its chars. `length - 1`
\* panics on overflow when overflow checks are compiled in (the debug
\* profile) and wraps when they are not (the release profile).
new(src, st, overflow_checks) ==
    LET bytes == Utf8Encode(src)
        cs == Chars(bytes)
        length == Len(cs)
    IN  IF length < 1 /\ overflow_checks THEN [panicked |-> TRUE]
        ELSE [panicked |-> FALSE,
              c |-> [source |-> bytes, chars |-> cs, position |-> 0,
                     max_position |-> WrappingSub(length, 1),
                     marked_position |-> 0, state |-> st, collection |-> <<>>,
                     collection_str |-> <<>>, tokens |-> <<>>,
                     should_trace |-> FALSE, trace |-> <<>>]]

\* ------------------------------------------------- tokens and the state
\* Rlex::toks
toks(c) == Out(Traced(c, MsgRes("toks", <<>>, c.tokens)), c.tokens)

\* Rlex::src (named src_ref here: src names the argument of new)
src_ref(c) == Out(Traced(c, Msg("src", <<>>)), c.source)

\* mutant of token_consume: the tokens come out newest first
token_consume_newest_first(c) ==
    [i \in 1..Len(c.tokens) |-> c.tokens[Len(c.tokens) + 1 - i]]

\* Rlex::token_consume: self is consumed and its tokens are the result
token_consume(c) == c.tokens

\* Rlex::token_push
token_push(c, tok) ==
    [Traced(c, Msg("token_push", <<tok>>)) EXCEPT !.tokens = Append(@, tok)]

\* Vec::pop
VecPop(v) ==
    IF v = <<>> THEN Out(v, None) ELSE Out(SubSeq(v, 1, Len(v) - 1), Some(v[Len(v)]))

\* Vec::last
VecLast(v) == IF v = <<>> THEN None ELSE Some(v[Len(v)])

\* mutant of token_pop: the oldest token is removed
token_pop_oldest(c) ==
    LET tok == IF c.tokens = <<>> THEN None ELSE Some(Head(c.tokens))
        d == [c EXCEPT !.tokens = IF @ = <<>> THEN @ ELSE Tail(@)]
    IN  Out(Traced(d, MsgRes("token_pop", <<>>, tok)), tok)

\* Rlex::token_pop
token_pop(c) ==
    LET p == VecPop(c.tokens)
        d == [c EXCEPT !.tokens = p.c]
    IN  Out(Traced(d, MsgRes("token_pop", <<>>, p.v)), p.v)

\* Rlex::token_prev
token_prev(c) ==
    Out(Traced(c, MsgRes("token_prev", <<>>, VecLast(c.tokens))), VecLast(c.tokens))

\* Rlex::state
state_get(c) == Out(Traced(c, MsgRes("state", <<>>, c.state)), c.state)

\* Rlex::state_set
state_set(c, st) == [Traced(c, Msg("state_set", <<st>>)) EXCEPT !.state = st]

\* ------------------------------------------------------------ navigation
\* Rlex::char: self.chars[self.position] (panics when out of range)
CharAt(c) ==
    IF c.position + 1 \in DOMAIN c.chars THEN c.chars[c.position + 1] ELSE PanicChar

char(c) == Out(Traced(c, MsgRes("char", <<>>, CharAt(c))), CharAt(c))

\* mutant of at_end: true only past the last char
at_end_past_last(c) ==
    LET is_at_end == c.position > c.max_position
    IN  Out(Traced(c, MsgRes("at_end", <<>>, is_at_end)), is_at_end)

\* Rlex::at_end
at_end(c) ==
    LET is_at_end == c.position = c.max_position
    IN  Out(Traced(c, MsgRes("at_end", <<>>, is_at_end)), is_at_end)

\* Rlex::at_start
at_start(c) ==
    LET is_at_start == c.position = 0
    IN  Out(Traced(c, MsgRes("at_start", <<>>, is_at_start)), is_at_start)

\* Rlex::at_mark
at_mark(c) ==
    LET is_at_mark == c.marked_position = c.position
    IN  Out(Traced(c, MsgRes("at_mark", <<>>, is_at_mark)), is_at_mark)

\* Rlex::pos
pos(c) == Out(Traced(c, MsgRes("pos", <<>>, c.position)), c.position)

\* mutant of next: no check against max_position
next_unchecked(c) == [Traced(c, Msg("next", <<>>)) EXCEPT !.position = @ + 1]

\* Rlex::next
next(c) ==
    LET t == Traced(c, Msg("next", <<>>))
    IN  IF t.position < t.max_position THEN [t EXCEPT !.position = @ + 1] ELSE t

\* Rlex::prev
prev(c) ==
    LET t == Traced(c, Msg("prev", <<>>))
    IN  IF t.position > 0 THEN [t EXCEPT !.position = @ - 1] ELSE t

RECURSIVE next_by_loop(_, _, _)
\* while count != by { self.next(); count += 1; }
next_by_loop(c, count, by) ==
    IF count /= by THEN next_by_loop(next(c), count + 1, by) ELSE c

\* Rlex::next_by
next_by(c, by) == next_by_loop(Traced(c, Msg("next_by", <<by>>)), 0, by)

RECURSIVE prev_by_loop(_, _)
\* while by != 0 { self.prev(); by -= 1; }
prev_by_loop(c, by) == IF by /= 0 THEN prev_by_loop(prev(c), by - 1) ELSE c

\* Rlex::prev_by
prev_by(c, by) == prev_by_loop(Traced(c, Msg("prev_by", <<by>>)), by)

RECURSIVE next_until_loop(_, _)
\* while self.char() != search { if self.at_end() { break; } self.next(); }
next_until_loop(c, search) ==
    LET ch == char(c)
    IN  IF ch.v /= search
        THEN LET e == at_end(ch.c)
             IN  IF e.v THEN e.c ELSE next_until_loop(next(e.c), search)
        ELSE ch.c

\* mutant of next_until: one step before the loop
next_until_step_first(c, search) ==
    next_until_loop(next(Traced(c, Msg("next_until", <<search>>))), search)

\* Rlex::next_until
next_until(c, search) ==
    next_until_loop(Traced(c, Msg("next_until", <<search>>)), search)

RECURSIVE prev_until_loop(_, _)
\* while self.char() != search { if self.at_start() { break; } self.prev(); }
prev_until_loop(c, search) ==
    LET ch == char(c)
    IN  IF ch.v /= search
        THEN LET s == at_start(ch.c)
             IN  IF s.v THEN s.c ELSE prev_until_loop(prev(s.c), search)
        ELSE ch.c

\* mutant of prev_until: the cursor runs back to the start
prev_until_to_start(c, search) ==
    [Traced(c, Msg("prev_until", <<search>>)) EXCEPT !.position = 0]

\* Rlex::prev_until
prev_until(c, search) ==
    prev_until_loop(Traced(c, Msg("prev_until", <<search>>)), search)

\* mutant of mark: the position is remembered and the cursor rewinds
mark_and_rewind(c) ==
    [Traced(c, Msg("mark", <<>>)) EXCEPT !.marked_position = c.position, !.position = 0]

\* Rlex::mark
mark(c) == [Traced(c, Msg("mark", <<>>)) EXCEPT !.marked_position = c.position]

\* mutant of goto_pos: no clamp to max_position
goto_pos_unclamped(c, p) == [Traced(c, Msg("goto_pos", <<p>>)) EXCEPT !.position = p]

\* Rlex::goto_pos
goto_pos(c, p) ==
    LET t == Traced(c, Msg("goto_pos", <<p>>))
    IN  IF p > t.max_position THEN [t EXCEPT !.position = t.max_position]
        ELSE [t EXCEPT !.position = p]

\* Rlex::goto_mark
goto_mark(c) == [Traced(c, Msg("goto_mark", <<>>)) EXCEPT !.position = c.marked_position]

\* Rlex::goto_start
goto_start(c) == [Traced(c, Msg("goto_start", <<>>)) EXCEPT !.position = 0]

\* Rlex::goto_end
goto_end(c) == [Traced(c, Msg("goto_end", <<>>)) EXCEPT !.position = c.max_position]

\* ----------------------------------------------------------------- peeks
\* mutant of peek: reads the char before stepping
peek_reads_first(c) ==
    LET start == c.position
        ch == char(c)
        back == goto_pos(next(ch.c), start)
    IN  Out(Traced(back, MsgRes("peek", <<>>, ch.v)), ch.v)

\* mutant of peek: with tracing on, the position is logged where the char was
\* read and is not restored
peek_traced_no_restore(c) ==
    LET start == c.position
        ch == char(next(c))
        back == IF c.should_trace THEN ch.c ELSE goto_pos(ch.c, start)
    IN  Out(Traced(back, MsgRes("peek", <<>>, ch.v)), ch.v)

\* Rlex::peek
peek(c) ==
    LET start == c.position
        ch == char(next(c))
        back == goto_pos(ch.c, start)
    IN  Out(Traced(back, MsgRes("peek", <<>>, ch.v)), ch.v)

\* mutant of peek_by: the position is not restored
peek_by_no_restore(c, by) ==
    LET ch == char(next_by(c, by))
    IN  Out(Traced(ch.c, MsgRes("peek_by", <<by>>, ch.v)), ch.v)

\* Rlex::peek_by
peek_by(c, by) ==
    LET start == c.position
        ch == char(next_by(c, by))
        back == goto_pos(ch.c, start)
    IN  Out(Traced(back, MsgRes("peek_by", <<by>>, ch.v)), ch.v)

\* Rlex::peek_back
peek_back(c) ==
    LET start == c.position
        ch == char(prev(c))
        back == goto_pos(ch.c, start)
    IN  Out(Traced(back, MsgRes("peek_back", <<>>, ch.v)), ch.v)

\* Rlex::peek_back_by
peek_back_by(c, by) ==
    LET start == c.position
        ch == char(prev_by(c, by))
        back == goto_pos(ch.c, start)
    IN  Out(Traced(back, MsgRes("peek_back_by", <<by>>, ch.v)), ch.v)

\* Rlex::next_is
next_is(c, check) ==
    LET p == peek(Traced(c, Msg("next_is", <<check>>))) IN Out(p.c, p.v = check)

\* Rlex::next_by_is
next_by_is(c, check, by) ==
    LET p == peek_by(Traced(c, Msg("next_by_is", <<check, by>>)), by)
    IN  Out(p.c, p.v = check)

\* Rlex::prev_is
prev_is(c, check) ==
    LET p == peek_back(Traced(c, Msg("prev_is", <<check>>))) IN Out(p.c, p.v = check)

\* Rlex::prev_by_is
prev_by_is(c, check, by) ==
    LET p == peek_back_by(Traced(c, Msg("prev_by_is", <<check, by>>)), by)
    IN  Out(p.c, p.v = check)

\* ------------------------------------------------------ range extraction
\* Iterator::take(n) on a sequence
Take(s, n) == SubSeq(s, 1, Min(n, Len(s)))

\* mutant of str_from_rng: the bounds are clamped but not swapped
str_from_rng_no_swap(c, start0, end0) ==
    LET start == IF start0 > c.max_position THEN c.max_position ELSE start0
        end == IF end0 > c.max_position THEN c.max_position ELSE end0
        start_byte == SumWidths(VecSlice(c.chars, 0, start))
        byte_len == SumWidths(VecSlice(c.chars, start, Max(start, end + 1)))
    IN  StrSlice(c.source, start_byte, start_byte + byte_len)

\* Rlex::str_from_rng
str_from_rng(c, start0, end0) ==
    LET s1 == IF start0 > c.max_position THEN c.max_position ELSE start0
        e1 == IF end0 > c.max_position THEN c.max_position ELSE end0
        start == IF s1 > e1 THEN e1 ELSE s1
        end == IF s1 > e1 THEN s1 ELSE e1
        start_byte == SumWidths(VecSlice(c.chars, 0, start))
        byte_len == SumWidths(VecSlice(c.chars, start, end + 1))
    IN  StrSlice(c.source, start_byte, start_byte + byte_len)

\* mutant of str_from_mark: the range always runs from the mark to the position
str_from_mark_unordered(c) ==
    LET start == c.marked_position
        end == c.position
        start_byte == SumWidths(VecSlice(c.chars, 0, start))
        byte_len == SumWidths(VecSlice(c.chars, start, Max(start, end + 1)))
    IN  StrSlice(c.source, start_byte, start_byte + byte_len)

\* Rlex::str_from_mark
str_from_mark(c) ==
    LET start == IF c.marked_position <= c.position THEN c.marked_position ELSE c.position
        end == IF c.marked_position <= c.position THEN c.position ELSE c.marked_position
        start_byte == SumWidths(VecSlice(c.chars, 0, start))
        byte_len == SumWidths(VecSlice(c.chars, start, end + 1))
    IN  StrSlice(c.source, start_byte, start_byte + byte_len)

\* the per-char widths of a slice: .iter().map(|c| c.len_utf8())
Widths(cs) == [i \in DOMAIN cs |-> len_utf8(cs[i])]

RECURSIVE Sum(_)
\* .sum::<usize>()
Sum(ws) == IF ws = <<>> THEN 0 ELSE Head(ws) + Sum(Tail(ws))

\* mutant of str_from_start: the char at the position is left out
str_from_start_exclusive(c) ==
    StrSlice(c.source, 0, SumWidths(VecSlice(c.chars, 0, Min(c.position, c.max_position))))

\* Rlex::str_from_start
str_from_start(c) ==
    LET start == 0
        end == Min(c.position, c.max_position) + 1
        start_byte == Sum(Take(Widths(VecSlice(c.chars, start, end)), start))
        byte_len == Sum(Widths(VecSlice(c.chars, start, end)))
    IN  StrSlice(c.source, start_byte, start_byte + byte_len)

\* Rlex::str_from_end
str_from_end(c) ==
    LET start == c.position
        end == c.max_position + 1
        start_byte == SumWidths(VecSlice(c.chars, 0, start))
        byte_len == SumWidths(VecSlice(c.chars, start, end))
    IN  StrSlice(c.source, start_byte, start_byte + byte_len)

\* ---------------------------------------------------------- quote scanner
\* mutant of QuoteStep: '\'' does not toggle anything
QuoteStep_double_only(q, ch) ==
    IF q.escaped THEN [q EXCEPT !.escaped = FALSE]
    ELSE IF ch = BACKSLASH THEN [q EXCEPT !.escaped = TRUE]
    ELSE IF ch = DQUOTE THEN [q EXCEPT !.big = ~q.big]
    ELSE q

\* mutant of QuoteStep: a backslash escapes even when it is itself escaped
QuoteStep_backslash_always(q, ch) ==
    IF ch = BACKSLASH THEN [q EXCEPT !.escaped = TRUE]
    ELSE IF q.escaped THEN [q EXCEPT !.escaped = FALSE]
    ELSE IF ch = DQUOTE THEN [q EXCEPT !.big = ~q.big]
    ELSE IF ch = SQUOTE THEN [q EXCEPT !.lil = ~q.lil]
    ELSE q

\* one iteration of the for loop of is_in_quote over the flags
\* q = [big, lil, escaped]
QuoteStep(q, ch) ==
    IF q.escaped THEN [q EXCEPT !.escaped = FALSE]
    ELSE IF ch = BACKSLASH THEN [q EXCEPT !.escaped = TRUE]
    ELSE IF ch = DQUOTE THEN [q EXCEPT !.big = ~q.big]
    ELSE IF ch = SQUOTE THEN [q EXCEPT !.lil = ~q.lil]
    ELSE q

RECURSIVE QuoteScan(_, _)
\* for c in self.str_from_start().chars() { .. }
QuoteScan(q, cs) == IF cs = <<>> THEN q ELSE QuoteScan(QuoteStep(q, Head(cs)), Tail(cs))

\* Rlex::is_in_quote
is_in_quote(c) ==
    LET q == QuoteScan([big |-> FALSE, lil |-> FALSE, escaped |-> FALSE],
                       Chars(str_from_start(c)))
        result == q.big \/ q.lil
    IN  Out(Traced(c, MsgRes("is_in_quote", <<>>, result)), q.big \/ q.lil)

\* ------------------------------------------------------------ collection
\* mutant of collect: the cursor steps on after collecting
collect_and_advance(c) ==
    LET ch == char(Traced(c, Msg("collect", <<>>)))
    IN  next([ch.c EXCEPT !.collection = Append(@, ch.v)])

\* Rlex::collect
collect(c) ==
    LET ch == char(Traced(c, Msg("collect", <<>>)))
    IN  [ch.c EXCEPT !.collection = Append(@, ch.v)]

\* mutant of str_from_collection: the cached string is returned as it is
str_from_collection_stale(c) == Out(c, c.collection_str)

\* Rlex::str_from_collection
str_from_collection(c) ==
    LET d == [c EXCEPT !.collection_str = Utf8Encode(c.collection)]
    IN  Out(d, d.collection_str)

\* Rlex::collect_clear
collect_clear(c) ==
    [Traced(c, Msg("collect_clear", <<>>)) EXCEPT !.collection = <<>>,
                                                   !.collection_str = <<>>]

\* Rlex::collect_pop
collect_pop(c) ==
    LET p == VecPop(c.collection)
        d == [c EXCEPT !.collection = p.c]
    IN  Out(Traced(d, MsgRes("collect_pop", <<>>, p.v)), p.v)

\* Rlex::collect_push
collect_push(c, ch) ==
    [Traced(c, Msg("collect_push", <<ch>>)) EXCEPT !.collection = Append(@, ch)]

\* =============================================================== actions
Init ==
    /\ source = <<>>
    /\ chars = <<>>
    /\ position = 0
    /\ max_position = 0
    /\ marked_position = 0
    /\ state = "Init"
    /\ collection = <<>>
    /\ collection_str = <<>>
    /\ tokens = <<>>
    /\ should_trace = FALSE
    /\ trace = <<>>
    /\ status = "unbuilt"
    /\ call = FirstCall("none", <<>>)
    /\ ret = Unit

\* a cursor over a non-empty source exists. (The calls explored are those on
\* a cursor built from a non-empty source.)
Built == status = "ok" /\ chars /= <<>>

\* the chars handed to the searching and comparing methods
SearchChars == {chars[1], chars[Len(chars)]} \cup AbsentChars

\* a method that returns the cursor (or nothing) ran and left cursor c
Does(op, args, c) == Store(c) /\ call' = Call(op, args) /\ ret' = Unit /\ status' = status

\* a method that returns a value ran: o is its outcome
Returns(op, args, o) == Store(o.c) /\ call' = Call(op, args) /\ ret' = o.v /\ status' = status

\* a &self method that returns a value ran
Reads(op, args, v) == Store(Self) /\ call' = Call(op, args) /\ ret' = v /\ status' = status

\* let r = Rlex::new(src, State::Init), compiled with or without overflow checks
op_new ==
    /\ status = "unbuilt"
    /\ \E src \in Sources, overflow_checks \in BOOLEAN :
        LET n == new(src, "Init", overflow_checks)
        IN  /\ call' = Call("new", <<src>>)
            /\ ret' = Unit
            /\ IF n.panicked
               THEN /\ status' = "panic"
                    /\ UNCHANGED <<source, chars, position, max_position, marked_position,
                                   state, collection, collection_str, tokens,
                                   should_trace, trace>>
               ELSE /\ status' = "ok"
                    /\ Store(n.c)

op_next == Built /\ Does("next", <<>>, next(Self))
op_prev == Built /\ Does("prev", <<>>, prev(Self))
op_next_by == Built /\ \E by \in 0..MaxBy : Does("next_by", <<by>>, next_by(Self, by))
op_prev_by == Built /\ \E by \in 0..MaxBy : Does("prev_by", <<by>>, prev_by(Self, by))
op_next_until ==
    Built /\ \E search \in SearchChars : Does("next_until", <<search>>, next_until(Self, search))
op_prev_until ==
    Built /\ \E search \in SearchChars : Does("prev_until", <<search>>, prev_until(Self, search))
op_mark == Built /\ Does("mark", <<>>, mark(Self))
op_goto_pos == Built /\ \E p \in 0..MaxPos : Does("goto_pos", <<p>>, goto_pos(Self, p))
op_goto_mark == Built /\ Does("goto_mark", <<>>, goto_mark(Self))
op_goto_start == Built /\ Does("goto_start", <<>>, goto_start(Self))
op_goto_end == Built /\ Does("goto_end", <<>>, goto_end(Self))

op_char == Built /\ Returns("char", <<>>, char(Self))
op_pos == Built /\ Returns("pos", <<>>, pos(Self))
op_at_end == Built /\ Returns("at_end", <<>>, at_end(Self))
op_at_start == Built /\ Returns("at_start", <<>>, at_start(Self))
op_at_mark == Built /\ Returns("at_mark", <<>>, at_mark(Self))

op_peek == Built /\ Returns("peek", <<>>, peek(Self))
op_peek_back == Built /\ Returns("peek_back", <<>>, peek_back(Self))
op_peek_by == Built /\ \E by \in 0..MaxBy : Returns("peek_by", <<by>>, peek_by(Self, by))
op_peek_back_by ==
    Built /\ \E by \in 0..MaxBy : Returns("peek_back_by", <<by>>, peek_back_by(Self, by))
op_next_is ==
    Built /\ \E check \in SearchChars : Returns("next_is", <<check>>, next_is(Self, check))
op_prev_is ==
    Built /\ \E check \in SearchChars : Returns("prev_is", <<check>>, prev_is(Self, check))
op_next_by_is ==
    Built /\ \E check \in SearchChars, by \in 0..MaxBy :
        Returns("next_by_is", <<check, by>>, next_by_is(Self, check, by))
op_prev_by_is ==
    Built /\ \E check \in SearchChars, by \in 0..MaxBy :
        Returns("prev_by_is", <<check, by>>, prev_by_is(Self, check, by))

op_str_from_rng ==
    Built /\ \E a \in 0..MaxPos, b \in 0..MaxPos :
        Reads("str_from_rng", <<a, b>>, str_from_rng(Self, a, b))
op_str_from_mark == Built /\ Reads("str_from_mark", <<>>, str_from_mark(Self))
op_str_from_start == Built /\ Reads("str_from_start", <<>>, str_from_start(Self))
op_str_from_end == Built /\ Reads("str_from_end", <<>>, str_from_end(Self))

op_is_in_quote == Built /\ Returns("is_in_quote", <<>>, is_in_quote(Self))

Next ==
    \/ op_new
    \/ op_next \/ op_prev \/ op_next_by \/ op_prev_by \/ op_next_until \/ op_prev_until
    \/ op_mark \/ op_goto_pos \/ op_goto_mark \/ op_goto_start \/ op_goto_end
    \/ op_char \/ op_pos \/ op_at_end \/ op_at_start \/ op_at_mark
    \/ op_peek \/ op_peek_back \/ op_peek_by \/ op_peek_back_by
    \/ op_next_is \/ op_prev_is \/ op_next_by_is \/ op_prev_by_is
    \/ op_str_from_rng \/ op_str_from_mark \/ op_str_from_start \/ op_str_from_end
    \/ op_is_in_quote

\* the navigation, peek, range and quote facets of a cursor, tracing off
Spec == Init /\ [][Next]_vars

\* a cursor just built from one of the quote-detection inputs of the tests
InitQuote ==
    \E src \in QuoteSources :
        LET c == new(src, "Init", TRUE).c
        IN  /\ source = c.source
            /\ chars = c.chars
            /\ position = c.position
            /\ max_position = c.max_position
            /\ marked_position = c.marked_position
            /\ state = c.state
            /\ collection = c.collection
            /\ collection_str = c.collection_str
            /\ tokens = c.tokens
            /\ should_trace = c.should_trace
            /\ trace = c.trace
            /\ status = "ok"
            /\ call = FirstCall("new", <<src>>)
            /\ ret = Unit

\* r.next_until('b'), r.next_until('\'') of test_rlex_is_in_quote
op_next_until_quote ==
    Built /\ \E search \in QuoteSearchChars :
        Does("next_until", <<search>>, next_until(Self, search))

NextQuote ==
    \/ op_next \/ op_prev \/ op_goto_start \/ op_goto_end
    \/ op_at_end \/ op_at_start \/ op_char \/ op_is_in_quote
    \/ op_next_until_quote

\* a caller walking one of the quote-detection inputs and asking is_in_quote
SpecQuote == InitQuote /\ [][NextQuote]_vars

\* ================================================================ claims
\* the char at 0-based index i of the source
Sym(i) == chars[i + 1]

\* the last call was method op on a cursor built from a non-empty source
Called(op) == Built /\ call.op = op

\* the chars of the source at the 0-based indices lo ..= hi
Symbols(lo, hi) == SubSeq(chars, lo + 1, hi + 1)

\* C1: on a cursor built from a non-empty source, after any sequence of
\* public calls, position and marked_position lie in 0 ..= max_position,
\* max_position is the last index of chars, and so chars[position] exists.
C1_PositionsInBounds ==
    Built =>
        /\ max_position = Len(chars) - 1
        /\ 0 <= position /\ position <= max_position
        /\ 0 <= marked_position /\ marked_position <= max_position
        /\ CharAt(Self) /= PanicChar

\* C1 witness: goto_pos was called with an index past the end, after a mark
\* away from the start, and the cursor sits on the last char.
C1_Witness ==
    /\ Called("goto_pos")
    /\ call.args[1] > max_position
    /\ position = max_position
    /\ marked_position > 0

\* C2 (as claimed): new on the empty string yields an error value and no
\* cursor; new on a non-empty string yields a cursor at position 0 with mark
\* 0, max_position = number of chars - 1, and no tokens or collected chars.
C2_Construction ==
    (status /= "unbuilt" /\ call.op = "new") =>
        IF call.args[1] = <<>>
        THEN status = "error"
        ELSE /\ status = "ok"
             /\ position = 0
             /\ marked_position = 0
             /\ max_position = Len(call.args[1]) - 1
             /\ tokens = <<>>
             /\ collection = <<>>

\* C3: next_by(n) leaves position = min(p + n, max_position), prev_by(n)
\* leaves position = max(p - n, 0), and next / prev are the n = 1 cases.
C3_SteppingSaturates ==
    /\ Called("next_by") => position = Min(call.p0 + call.args[1], max_position)
    /\ Called("prev_by") => position = Max(call.p0 - call.args[1], 0)
    /\ Called("next") => position = Min(call.p0 + 1, max_position)
    /\ Called("prev") => position = Max(call.p0 - 1, 0)

\* C3 witness: a next_by that asked for more steps than there were chars left
\* from a position before the end.
C3_Witness ==
    /\ Called("next_by")
    /\ call.p0 < max_position
    /\ call.p0 + call.args[1] > max_position
    /\ position = max_position

PeekOps ==
    {"peek", "peek_by", "peek_back", "peek_back_by",
     "next_is", "next_by_is", "prev_is", "prev_by_is"}

\* C4: every peek and every comparison built on one leaves position and
\* marked_position as they were before the call.
C4_PeekPurity ==
    (Built /\ call.op \in PeekOps) =>
        /\ position = call.p0
        /\ marked_position = call.m0

\* C4 witness: a peek_by whose offset ran past the end, from a position that
\* is neither the start nor the mark.
C4_Witness ==
    /\ Called("peek_by")
    /\ call.p0 + call.args[1] > max_position
    /\ position = call.p0
    /\ position > 0
    /\ position /= marked_position

\* C5: peek_by(n) returns the char at min(p + n, max_position), peek_back_by(n)
\* the char at max(p - n, 0), peek / peek_back are the n = 1 cases, and the
\* *_is comparisons compare their argument against exactly those chars.
C5_ClampingPeek ==
    /\ Called("peek_by") => ret = Sym(Min(call.p0 + call.args[1], max_position))
    /\ Called("peek_back_by") => ret = Sym(Max(call.p0 - call.args[1], 0))
    /\ Called("peek") => ret = Sym(Min(call.p0 + 1, max_position))
    /\ Called("peek_back") => ret = Sym(Max(call.p0 - 1, 0))
    /\ Called("next_is") => ret = (Sym(Min(call.p0 + 1, max_position)) = call.args[1])
    /\ Called("prev_is") => ret = (Sym(Max(call.p0 - 1, 0)) = call.args[1])
    /\ Called("next_by_is") =>
           ret = (Sym(Min(call.p0 + call.args[2], max_position)) = call.args[1])
    /\ Called("prev_by_is") =>
           ret = (Sym(Max(call.p0 - call.args[2], 0)) = call.args[1])

\* C5 witness: peek at the end of "abcd" returned the last char, 'd'.
C5_Witness ==
    /\ Called("peek")
    /\ chars = ABCD
    /\ call.p0 = max_position
    /\ ret = 100

\* C6 (as claimed): next_until / prev_until called at a position that is not
\* the respective boundary and whose char is the searched one leave the
\* position strictly after / strictly before it.
C6_InitialStep ==
    /\ (Called("next_until") /\ call.p0 < max_position /\ Sym(call.p0) = call.args[1])
           => position > call.p0
    /\ (Called("prev_until") /\ call.p0 > 0 /\ Sym(call.p0) = call.args[1])
           => position < call.p0

\* C6 (amended): next_until / prev_until take no step before testing the
\* current char: called where the char is the searched one they leave the
\* position where it was; called elsewhere, off the respective boundary, they
\* move strictly forward / strictly backward.
C6_NoInitialStep ==
    /\ (Called("next_until") /\ Sym(call.p0) = call.args[1]) => position = call.p0
    /\ (Called("prev_until") /\ Sym(call.p0) = call.args[1]) => position = call.p0
    /\ (Called("next_until") /\ Sym(call.p0) /= call.args[1] /\ call.p0 < max_position)
           => position > call.p0
    /\ (Called("prev_until") /\ Sym(call.p0) /= call.args[1] /\ call.p0 > 0)
           => position < call.p0

\* C6 witness: next_until called off the end, on a char equal to the searched
\* one that occurs again further on, and the cursor has not moved.
C6_Witness ==
    /\ Called("next_until")
    /\ call.p0 < max_position
    /\ Sym(call.p0) = call.args[1]
    /\ \E i \in (call.p0 + 1)..max_position : Sym(i) = call.args[1]
    /\ position = call.p0

\* the cursor with position and mark exchanged
Swapped == [Self EXCEPT !.position = marked_position, !.marked_position = position]

\* C7: str_from_mark returns exactly the chars at indices min(mark, position)
\* ..= max(mark, position), the same string whichever of the two is the mark;
\* on "abcd" with mark and position at 1 and 2, in either order, that is "bc".
C7_SliceFromMark ==
    Called("str_from_mark") =>
        /\ ret /= PanicStr
        /\ Chars(ret) = Symbols(Min(marked_position, position),
                                Max(marked_position, position))
        /\ ret = str_from_mark(Swapped)
        /\ (chars = ABCD /\ {marked_position, position} = {1, 2})
               => Chars(ret) = <<98, 99>>

\* C7 witness: "abcd" with the mark (2) after the position (1) yielded "bc".
C7_Witness ==
    /\ Called("str_from_mark")
    /\ chars = ABCD
    /\ marked_position = 2
    /\ position = 1
    /\ Chars(ret) = <<98, 99>>

\* C8: str_from_rng(a, b) clamps both bounds to max_position, orders them, and
\* returns exactly the chars lo ..= hi; it never panics, gives the same string
\* for (b, a), and leaves position and marked_position alone.
C8_SliceRange ==
    Called("str_from_rng") =>
        LET a == Min(call.args[1], max_position)
            b == Min(call.args[2], max_position)
        IN  /\ ret /= PanicStr
            /\ Chars(ret) = Symbols(Min(a, b), Max(a, b))
            /\ ret = str_from_rng(Self, call.args[2], call.args[1])
            /\ position = call.p0
            /\ marked_position = call.m0

\* C8 witness: str_from_rng(4, 1) on "abcd": the first bound is past the end
\* and larger than the second, and the result is "bcd".
C8_Witness ==
    /\ Called("str_from_rng")
    /\ chars = ABCD
    /\ call.args = <<4, 1>>
    /\ Chars(ret) = <<98, 99, 100>>

\* the bytes of the source that hold the chars lo ..= hi: those after the
\* encodings of the chars before lo, as long as the encodings of lo ..= hi
BytesOf(lo, hi) ==
    LET before == Len(Utf8Encode(Symbols(0, lo - 1)))
        width == Len(Utf8Encode(Symbols(lo, hi)))
    IN  SubSeq(source, before + 1, before + width)

\* the string s is exactly the chars lo ..= hi of the source: it is the bytes
\* those chars occupy, it decodes to them, and it has hi - lo + 1 chars
ExactRange(s, lo, hi) ==
    /\ s /= PanicStr
    /\ s = BytesOf(lo, hi)
    /\ Chars(s) = Symbols(lo, hi)
    /\ Len(Chars(s)) = hi - lo + 1

\* C9: with chars of 1 to 4 encoded bytes in the source, str_from_start,
\* str_from_end, str_from_mark and str_from_rng each return the bytes of
\* exactly the chars 0 ..= position, position ..= max_position,
\* min(mark, position) ..= max(mark, position) and lo ..= hi.
C9_ByteSafeRanges ==
    /\ Called("str_from_start") => ExactRange(ret, 0, position)
    /\ Called("str_from_end") => ExactRange(ret, position, max_position)
    /\ Called("str_from_mark") =>
           ExactRange(ret, Min(marked_position, position), Max(marked_position, position))
    /\ Called("str_from_rng") =>
           LET a == Min(call.args[1], max_position)
               b == Min(call.args[2], max_position)
           IN  ExactRange(ret, Min(a, b), Max(a, b))

\* C9 witness: str_from_end at position 2 of the source whose chars take 2, 1,
\* 4 and 3 bytes returned the last 7 bytes, two chars.
C9_Witness ==
    /\ Called("str_from_end")
    /\ chars = MIXED
    /\ position = 2
    /\ Len(ret) = 7
    /\ Chars(ret) = <<128512, 8364>>

\* C10 (as claimed): on the quoted input is_in_quote is true at every
\* position, on the unquoted input it is false at every position.
C10_QuotedEverywhere ==
    /\ (Called("is_in_quote") /\ chars = QUOTED) => ret = TRUE
    /\ (Called("is_in_quote") /\ chars = NOT_QUOTED) => ret = FALSE

\* C10 (amended): on the quoted input is_in_quote is true at every position
\* before the last and false at the last, the closing quote; on the unquoted
\* input it is false at every position.
C10_QuotedUntilClosing ==
    /\ (Called("is_in_quote") /\ chars = QUOTED) => ret = (position < max_position)
    /\ (Called("is_in_quote") /\ chars = NOT_QUOTED) => ret = FALSE

\* C10 witness: is_in_quote asked on the closing quote of the quoted input,
\* reached by stepping, answered false.
C10_Witness ==
    /\ Called("is_in_quote")
    /\ chars = QUOTED
    /\ position = max_position
    /\ ret = FALSE

\* the number of quote chars, of either kind, at the indices 0 ..= p
QuotesUpTo(p) == Cardinality({i \in 0..p : Sym(i) \in {DQUOTE, SQUOTE}})

\* C11: is_in_quote counts the char at the position. On the test inputs (one
\* kind of quote each, no backslash) it is true exactly when an odd number of
\* quotes lies at 0 ..= position: true on the opening quote and inside the
\* span, false on the closing quote. On the quoted input that is every
\* position before the last; on <p name='bob'> next_until('b') from the start
\* lands on index 9, inside the span 8 ..= 11, and next_until('\'') from there
\* lands on the closing quote at 12.
C11_CurrentSymbolCounts ==
    /\ Called("is_in_quote") => ret = (QuotesUpTo(position) % 2 = 1)
    /\ (Called("is_in_quote") /\ chars = QUOTED) => ret = (position < max_position)
    /\ (Called("is_in_quote") /\ chars = TAG) => ret = (position \in 8..11)
    /\ (Called("next_until") /\ chars = TAG /\ call.p0 = 0 /\ call.args = <<98>>)
           => position = 9
    /\ (Called("next_until") /\ chars = TAG /\ call.p0 = 9 /\ call.args = <<SQUOTE>>)
           => position = 12

\* C11 witness: is_in_quote asked on the closing quote of <p name='bob'>
\* answered false.
C11_Witness ==
    /\ Called("is_in_quote")
    /\ chars = TAG
    /\ position = 12
    /\ Sym(position) = SQUOTE
    /\ ret = FALSE

\* ------------------------------------------------ the accumulator facets
\* "a" followed by U+20AC: the source the accumulator calls are made on
ACC == <<97, 8364>>

\* a cursor just built on ACC
InitAcc ==
    LET c == new(ACC, "Init", TRUE).c
    IN  /\ source = c.source
        /\ chars = c.chars
        /\ position = c.position
        /\ max_position = c.max_position
        /\ marked_position = c.marked_position
        /\ state = c.state
        /\ collection = c.collection
        /\ collection_str = c.collection_str
        /\ tokens = c.tokens
        /\ should_trace = c.should_trace
        /\ trace = c.trace
        /\ status = "ok"
        /\ call = FirstCall("new", <<ACC>>)
        /\ ret = Unit

op_toks == Built /\ Returns("toks", <<>>, toks(Self))
op_src == Built /\ Returns("src", <<>>, src_ref(Self))
op_token_push ==
    Built /\ Len(tokens) < MaxTokens
          /\ \E tok \in Tokens : Does("token_push", <<tok>>, token_push(Self, tok))
op_token_pop == Built /\ Returns("token_pop", <<>>, token_pop(Self))
op_token_prev == Built /\ Returns("token_prev", <<>>, token_prev(Self))

\* let v = r.token_consume(): the cursor is moved into the call, its tokens
\* are moved out to the caller, and the rest of it is dropped
op_token_consume ==
    /\ Built
    /\ call' = Call("token_consume", <<>>)
    /\ ret' = token_consume(Self)
    /\ status' = "consumed"
    /\ tokens' = <<>>
    /\ UNCHANGED <<source, chars, position, max_position, marked_position, state,
                   collection, collection_str, should_trace, trace>>

op_state == Built /\ Returns("state", <<>>, state_get(Self))
op_state_set == Built /\ \E st \in States : Does("state_set", <<st>>, state_set(Self, st))

op_collect ==
    Built /\ Len(collection) < MaxCollect /\ Does("collect", <<>>, collect(Self))
op_collect_push ==
    Built /\ Len(collection) < MaxCollect
          /\ \E ch \in AbsentChars : Does("collect_push", <<ch>>, collect_push(Self, ch))
op_collect_pop == Built /\ Returns("collect_pop", <<>>, collect_pop(Self))
op_collect_clear == Built /\ Does("collect_clear", <<>>, collect_clear(Self))
op_str_from_collection ==
    Built /\ Returns("str_from_collection", <<>>, str_from_collection(Self))

NextTok ==
    \/ op_toks \/ op_src \/ op_token_push \/ op_token_pop \/ op_token_prev
    \/ op_token_consume \/ op_state \/ op_state_set
    \/ op_next \/ op_prev

\* the token stack and the state of a cursor that next and prev move about,
\* tracing off
SpecTok == InitAcc /\ [][NextTok]_vars

NextCollect ==
    \/ op_collect \/ op_collect_push \/ op_collect_pop \/ op_collect_clear
    \/ op_str_from_collection
    \/ op_next \/ op_prev

\* the collection buffer of a cursor that next and prev move about, tracing off
SpecCollect == InitAcc /\ [][NextCollect]_vars


\* ------------------------------------------------------------------ C12

\* the newest token of a stack, or None
Newest(stack) == IF stack = <<>> THEN None ELSE Some(stack[Len(stack)])

\* a stack without its newest token
Older(stack) == IF stack = <<>> THEN <<>> ELSE SubSeq(stack, 1, Len(stack) - 1)

\* one call of a token operation, related to the stack it found
StackStep ==
    /\ call'.op = "token_push" =>
           tokens' = Append(tokens, call'.args[1])
    /\ call'.op = "token_pop" =>
           /\ status' = "ok"
           /\ ret' = Newest(tokens)
           /\ tokens' = Older(tokens)
    /\ call'.op = "token_prev" =>
           /\ status' = "ok"
           /\ ret' = Newest(tokens)
           /\ tokens' = tokens
    /\ (call.op = "token_push" /\ call'.op = "token_pop") =>
           /\ ret' = Some(call.args[1])
           /\ tokens' = call.t0

\* C12: the tokens are a stack. token_push puts its token on top; token_pop
\* removes and returns the newest token still there; token_prev returns that
\* token and removes nothing; on an empty stack both return None, do not
\* fail, and leave the stack empty; a token_pop right after token_push(t)
\* returns t and leaves the stack as it was before the push.
C12_StackDiscipline == [][StackStep]_vars

\* token_pop on <<Tok1, Tok2>> returned Tok2 and left <<Tok1>>
C12_Witness ==
    /\ Called("token_pop")
    /\ call.t0 = <<"Tok1", "Tok2">>
    /\ ret = Some("Tok2")
    /\ tokens = <<"Tok1">>


\* ------------------------------------------------------------------ C13

\* token_consume hands out the stack it found, oldest token first, and no
\* call is made on a consumed cursor
ConsumeStep ==
    /\ status /= "consumed"
    /\ call'.op = "token_consume" =>
           /\ ret' = tokens
           /\ tokens' = <<>>
           /\ status' = "consumed"

\* C13: token_consume returns the whole token sequence in push order, oldest
\* first and without the tokens already popped, and leaves the stack empty;
\* it is terminal: no operation is performed on the cursor after it.
C13_ConsumeIsTerminal == [][ConsumeStep]_vars

\* Tok1 and Tok2 were pushed in that order and token_consume returned them
C13_Witness ==
    /\ status = "consumed"
    /\ call.op = "token_consume"
    /\ call.t0 = <<"Tok1", "Tok2">>
    /\ ret = <<"Tok1", "Tok2">>
    /\ tokens = <<>>


\* ------------------------------------------------- every method, by name
\* the methods without arguments
NoArgOps ==
    {"toks", "src", "token_pop", "token_prev", "token_consume", "state", "pos",
     "next", "prev", "char", "at_end", "at_start", "at_mark", "mark",
     "goto_mark", "goto_start", "goto_end", "peek", "peek_back",
     "str_from_mark", "str_from_start", "str_from_end", "is_in_quote",
     "collect", "str_from_collection", "collect_clear", "collect_pop"}

\* the step counts and indices handed to the methods: up to one past the end
Offsets == 0..(max_position + 1)

\* the calls a caller can make on the cursor: <<method, arguments>>
Calls ==
    {<<op, <<>>>> : op \in NoArgOps}
    \cup {<<"token_push", <<tok>>>> : tok \in Tokens}
    \cup {<<"state_set", <<st>>>> : st \in States}
    \cup {<<op, <<by>>>> : op \in {"next_by", "prev_by", "peek_by", "peek_back_by"},
                          by \in Offsets}
    \cup {<<op, <<ch>>>> : op \in {"next_until", "prev_until", "next_is", "prev_is",
                                  "collect_push"},
                          ch \in SearchChars}
    \cup {<<op, <<x[1], x[2]>>>> : op \in {"next_by_is", "prev_by_is"},
                                  x \in SearchChars \X Offsets}
    \cup {<<"goto_pos", <<p>>>> : p \in Offsets}
    \cup {<<"str_from_rng", <<x[1], x[2]>>>> : x \in Offsets \X Offsets}

\* r.<method>(arguments) on cursor c: the cursor after the call and the value
\* returned (Unit for a method that returns the cursor or nothing)
Apply(k, c) ==
    LET op == k[1]
        a == k[2]
    IN  CASE op = "toks" -> toks(c)
          [] op = "src" -> src_ref(c)
          [] op = "token_push" -> Out(token_push(c, a[1]), Unit)
          [] op = "token_pop" -> token_pop(c)
          [] op = "token_prev" -> token_prev(c)
          [] op = "token_consume" -> Out([c EXCEPT !.tokens = <<>>], token_consume(c))
          [] op = "state" -> state_get(c)
          [] op = "state_set" -> Out(state_set(c, a[1]), Unit)
          [] op = "pos" -> pos(c)
          [] op = "next" -> Out(next(c), Unit)
          [] op = "next_by" -> Out(next_by(c, a[1]), Unit)
          [] op = "next_until" -> Out(next_until(c, a[1]), Unit)
          [] op = "prev" -> Out(prev(c), Unit)
          [] op = "prev_by" -> Out(prev_by(c, a[1]), Unit)
          [] op = "prev_until" -> Out(prev_until(c, a[1]), Unit)
          [] op = "char" -> char(c)
          [] op = "at_end" -> at_end(c)
          [] op = "at_start" -> at_start(c)
          [] op = "at_mark" -> at_mark(c)
          [] op = "mark" -> Out(mark(c), Unit)
          [] op = "goto_pos" -> Out(goto_pos(c, a[1]), Unit)
          [] op = "goto_mark" -> Out(goto_mark(c), Unit)
          [] op = "goto_start" -> Out(goto_start(c), Unit)
          [] op = "goto_end" -> Out(goto_end(c), Unit)
          [] op = "peek" -> peek(c)
          [] op = "peek_by" -> peek_by(c, a[1])
          [] op = "peek_back" -> peek_back(c)
          [] op = "peek_back_by" -> peek_back_by(c, a[1])
          [] op = "next_is" -> next_is(c, a[1])
          [] op = "next_by_is" -> next_by_is(c, a[1], a[2])
          [] op = "prev_is" -> prev_is(c, a[1])
          [] op = "prev_by_is" -> prev_by_is(c, a[1], a[2])
          [] op = "str_from_rng" -> Out(c, str_from_rng(c, a[1], a[2]))
          [] op = "str_from_mark" -> Out(c, str_from_mark(c))
          [] op = "str_from_start" -> Out(c, str_from_start(c))
          [] op = "str_from_end" -> Out(c, str_from_end(c))
          [] op = "is_in_quote" -> is_in_quote(c)
          [] op = "collect" -> Out(collect(c), Unit)
          [] op = "str_from_collection" -> str_from_collection(c)
          [] op = "collect_clear" -> Out(collect_clear(c), Unit)
          [] op = "collect_pop" -> collect_pop(c)
          [] op = "collect_push" -> Out(collect_push(c, a[1]), Unit)

NextFacets ==
    \/ op_next \/ op_prev \/ op_mark
    \/ op_token_push \/ op_state_set \/ op_collect

\* a cursor with tracing off whose position, mark, state, token stack and
\* collection buffer all vary
SpecFacets == InitAcc /\ [][NextFacets]_vars


\* ------------------------------------------------------------------ C14

\* the logs the traced twin may hold when a call starts: none, or a line
TwinLogs == {<<>>, trace_log(Self, Msg("pos", <<>>)).trace}

\* the cursor with tracing on and the given log
Twin(log) == [Self EXCEPT !.should_trace = TRUE, !.trace = log]

\* a cursor without its trace facet
Quiet(c) == [c EXCEPT !.should_trace = FALSE, !.trace = <<>>]

\* two outcomes agree on the value returned and on everything but the log
SameButLog(o1, o2) == o1.v = o2.v /\ Quiet(o1.c) = Quiet(o2.c)

\* C14: tracing is an overlay. Take a cursor with tracing off and its twin
\* with tracing on, equal in everything but the log: every call returns the
\* same value on both and leaves them equal again in position, mark, state,
\* token stack, collection buffer and every other field but the log. Two
\* runs of the same calls so stay equal call after call.
C14_TracingIsOverlay ==
    Built =>
        \A k \in Calls :
            LET off == Apply(k, trace_off(Self))
            IN  \A log \in TwinLogs : SameButLog(Apply(k, Twin(log)), off)

\* C14 witness: a cursor away from its mark, with a token, a collected char and
\* a state set, whose traced twin logs four lines for one peek
C14_Witness ==
    /\ Built
    /\ position = 0
    /\ marked_position = 1
    /\ tokens /= <<>>
    /\ collection /= <<>>
    /\ state = "Open"
    /\ Len(Apply(<<"peek", <<>>>>, Twin(<<>>)).c.trace) = 4
    /\ Apply(<<"peek", <<>>>>, trace_off(Self)).c.trace = <<>>


\* ------------------------------------------------------ the trace facet
op_trace_on == Built /\ Does("trace_on", <<>>, trace_on(Self))
op_trace_off == Built /\ Does("trace_off", <<>>, trace_off(Self))
op_trace_clear == Built /\ Does("trace_clear", <<>>, trace_clear(Self))
op_trace_emit == Built /\ Reads("trace_emit", <<>>, trace_emit(Self))

\* the caller keeps the log short, as test_trace does with trace_clear
LogRoom == should_trace => Len(trace) < MaxTrace

NextTrace ==
    \/ op_trace_on \/ op_trace_off \/ op_trace_clear \/ op_trace_emit
    \/ LogRoom /\ op_toks
    \/ LogRoom /\ op_token_push
    \/ LogRoom /\ op_token_consume
    \/ LogRoom /\ op_next
    \/ LogRoom /\ op_pos
    \/ LogRoom /\ op_peek
    \/ LogRoom /\ op_str_from_start
    \/ LogRoom /\ op_str_from_collection

\* a cursor whose tracing the caller turns on and off between calls
SpecTrace == InitAcc /\ [][NextTrace]_vars

\* ------------------------------------------------------------------ C15

\* the operations that the claim says log one line each
LoggedOps == {k[1] : k \in Calls}

\* C15 (as claimed): with tracing on, every call of a navigation, peek,
\* predicate, state, token, collection or range-extraction operation,
\* token_consume and str_from_collection among them, grows the trace log by
\* exactly one line.
C15_OneLinePerCall ==
    [][(should_trace /\ call'.op \in LoggedOps) => Len(trace') = Len(trace) + 1]_vars


\* ------------------------------------------------------------------ C16

\* C16: next_until(ch) from position p stops on ch or on the last char,
\* never before p, and passes no ch on its way: no char at p or after it and
\* before the final position is ch, so none strictly between is. prev_until
\* is the mirror image: it stops on ch or on the first char, never after p,
\* and no char after the final position and up to p is ch.
C16_NearestOccurrence ==
    /\ Called("next_until") =>
           /\ Sym(position) = call.args[1] \/ position = max_position
           /\ position >= call.p0
           /\ \A i \in call.p0..(position - 1) : Sym(i) /= call.args[1]
    /\ Called("prev_until") =>
           /\ Sym(position) = call.args[1] \/ position = 0
           /\ position <= call.p0
           /\ \A i \in (position + 1)..call.p0 : Sym(i) /= call.args[1]

\* C16 witness: next_until moved forward onto the searched char, off the end,
\* with another occurrence of that char further on
C16_Witness ==
    /\ Called("next_until")
    /\ call.p0 < position
    /\ position < max_position
    /\ Sym(position) = call.args[1]
    /\ \E i \in (position + 1)..max_position : Sym(i) = call.args[1]


\* --------------------------------------------- quotes and escapes: SpecEsc
\* the chars of the sources of the escape cases: both quotes, the backslash
\* and a letter
EscAlphabet == {DQUOTE, SQUOTE, BACKSLASH, 97}

\* a cursor just built from a non-empty string over EscAlphabet
InitEsc ==
    \E src \in SeqsUpTo(EscAlphabet, MaxLen) \ {<<>>} :
        LET c == new(src, "Init", TRUE).c
        IN  /\ source = c.source
            /\ chars = c.chars
            /\ position = c.position
            /\ max_position = c.max_position
            /\ marked_position = c.marked_position
            /\ state = c.state
            /\ collection = c.collection
            /\ collection_str = c.collection_str
            /\ tokens = c.tokens
            /\ should_trace = c.should_trace
            /\ trace = c.trace
            /\ status = "ok"
            /\ call = FirstCall("new", <<src>>)
            /\ ret = Unit

NextEsc == op_next \/ op_prev \/ op_mark \/ op_is_in_quote

\* a caller walking a source of quotes and backslashes and asking is_in_quote
SpecEsc == InitEsc /\ [][NextEsc]_vars

\* ------------------------------------------------------------------ C17

\* the number of backslashes in the unbroken run that ends just before index i
RunBefore(i) ==
    LET starts == {j \in 0..i : \A k \in j..(i - 1) : Sym(k) = BACKSLASH}
    IN  i - (CHOOSE j \in starts : \A k \in starts : j <= k)

\* the char at index i is escaped: an odd run of backslashes leads up to it,
\* so the backslash just before it is not itself escaped
IsEscaped(i) == RunBefore(i) % 2 = 1

\* the toggle of quote char q after the chars 0 ..= p: flipped once by every
\* q that is not escaped
Toggle(q, p) == Cardinality({i \in 0..p : Sym(i) = q /\ ~IsEscaped(i)}) % 2 = 1

\* C17: is_in_quote at position p is the OR of two toggles over the chars
\* 0 ..= p, one flipped by every unescaped '"' and one by every unescaped "'",
\* where a char is escaped when it follows an unescaped backslash (a second
\* backslash included) and an escaped char flips nothing. The toggles do not
\* interact: after "'" inside an open '"' span both are on, and the closing
\* '"' leaves the "'" toggle on. The call moves neither position nor mark,
\* and its result is a function of the source and the position alone.
C17_QuoteReferenceScan ==
    Called("is_in_quote") =>
        /\ ret = (Toggle(DQUOTE, position) \/ Toggle(SQUOTE, position))
        /\ Symbols(0, position) = <<DQUOTE, SQUOTE, DQUOTE>> => ret = TRUE
        /\ position = call.p0
        /\ marked_position = call.m0

\* C17 witness: on \\" the quote follows an escaped backslash, so it opens a
\* span: is_in_quote asked on it, away from the mark, answered true
C17_Witness ==
    /\ Called("is_in_quote")
    /\ chars = <<BACKSLASH, BACKSLASH, DQUOTE>>
    /\ position = 2
    /\ marked_position = 1
    /\ ret = TRUE


\* ------------------------------------------------------------------ C18

\* one call, related to the position and the mark it found
RepositionStep ==
    /\ call'.op = "goto_pos" =>
           /\ status' = "ok"
           /\ position' = Min(call'.args[1], max_position)
    /\ call'.op = "goto_start" => position' = 0
    /\ call'.op = "goto_end" => position' = max_position
    /\ call'.op = "mark" =>
           /\ marked_position' = position
           /\ position' = position
    /\ call'.op \notin {"mark", "new"} => marked_position' = marked_position
    /\ call'.op = "goto_mark" =>
           /\ position' = marked_position
           /\ at_mark(Self').v = TRUE
    /\ call'.op = "at_mark" => ret' = (position = marked_position)

\* C18: goto_pos(p) leaves position = min(p, max_position) for every p and
\* never fails; goto_start leaves 0 and goto_end max_position; mark copies
\* position into marked_position and does not move; no call but mark changes
\* marked_position, so after mark and any moves goto_mark brings position
\* back to where mark was called, and at_mark is then true.
C18_AbsoluteRepositioning == [][RepositionStep]_vars

\* C18 witness: a mark set off the start, the cursor moved away, and goto_mark
\* brought it back
C18_Witness ==
    /\ Called("goto_mark")
    /\ marked_position > 0
    /\ call.p0 /= call.m0
    /\ call.m0 = marked_position
    /\ position = marked_position


\* ------------------------------------------------------------------ C19

\* one call of a collection operation, related to the buffer it found
CollectStep ==
    /\ call'.op = "str_from_collection" =>
           /\ ret' = Utf8Encode(collection)
           /\ Chars(ret') = collection
           /\ collection_str /= Utf8Encode(collection) => ret' /= collection_str
           /\ collection_str' = ret'
           /\ collection' = collection
    /\ call'.op = "collect" => collection' = Append(collection, Sym(position))
    /\ call'.op = "collect_push" => collection' = Append(collection, call'.args[1])
    /\ call'.op = "collect_pop" =>
           /\ status' = "ok"
           /\ ret' = Newest(collection)
           /\ collection' = Older(collection)
    /\ call'.op = "collect_clear" =>
           /\ collection' = <<>>
           /\ collection_str' = <<>>
           /\ str_from_collection(Self').v = <<>>

\* C19: str_from_collection returns the chars now in the buffer, encoded one
\* after the other in insertion order, whatever string an earlier call left
\* cached; collect appends the char at the position and collect_push its
\* argument; collect_pop removes and returns the last char, or returns None on
\* an empty buffer; collect_clear empties the buffer and the cached string, and
\* str_from_collection then returns the empty string.
C19_CollectionString == [][CollectStep]_vars

\* C19 witness: str_from_collection on a buffer of two chars, the first of three
\* bytes and collected at the end of the source, returned their four bytes
C19_Witness ==
    /\ Called("str_from_collection")
    /\ collection = <<8364, 122>>
    /\ position = max_position
    /\ Len(ret) = 4
    /\ Chars(ret) = <<8364, 122>>


\* ------------------------------------------------------------------ C20

\* the token operations
TokenOps == {"toks", "token_push", "token_pop", "token_prev", "token_consume"}

\* the collection operations
CollectionOps ==
    {"collect", "collect_push", "collect_pop", "collect_clear", "str_from_collection"}

\* the state operations
StateOps == {"state", "state_set"}

\* navigation, peeks, predicates, mark and range extraction are all the rest
\* (src, which returns the source, with them)
IsCursorOp(op) == op \notin TokenOps \cup CollectionOps \cup StateOps

\* C20: the facets are independent and the input never changes. Whatever
\* call is made in whatever state, source, chars and max_position stay as they
\* are; a navigation, peek, predicate, mark or range call leaves state, tokens
\* and collection as they are; a token or collection call, collect included,
\* leaves position and marked_position as they are; and only state_set
\* changes state.
C20_FacetsIndependent ==
    Built =>
        \A k \in Calls :
            LET d == Apply(k, Self).c
            IN  /\ d.source = source
                /\ d.chars = chars
                /\ d.max_position = max_position
                /\ IsCursorOp(k[1]) =>
                       /\ d.state = state
                       /\ d.tokens = tokens
                       /\ d.collection = collection
                /\ k[1] \in TokenOps \cup CollectionOps =>
                       /\ d.position = position
                       /\ d.marked_position = marked_position
                /\ k[1] /= "state_set" => d.state = state

\* C20 witness: collect ran on a cursor off the start, away from its mark, with
\* a token on the stack and a state set; it appended the char at the position
\* and the cursor is where it was
C20_Witness ==
    /\ Called("collect")
    /\ position = 1
    /\ marked_position = 0
    /\ position = call.p0
    /\ tokens /= <<>>
    /\ state = "Closed"
    /\ collection = Append(call.c0, Sym(position))


\* ------------------------------------------------------------------ C21

\* line i (0-based) of the log is "<i>:<message>\n"
Numbered(log) ==
    \A i \in 1..Len(log) :
        /\ Len(log[i]) = 4
        /\ log[i][1] = i - 1
        /\ log[i][2] = ":"
        /\ log[i][4] = "\n"

\* the log before is the beginning of the log after
IsPrefix(before, after) ==
    /\ Len(before) <= Len(after)
    /\ SubSeq(after, 1, Len(before)) = before

\* s is the lines of the log one after the other
IsLinesInOrder(s, log) ==
    /\ Len(s) = 4 * Len(log)
    /\ \A i \in 1..Len(log) : SubSeq(s, 4 * i - 3, 4 * i) = log[i]

\* one call, related to the log it found
LogStep ==
    /\ Numbered(trace')
    /\ call'.op = "trace_clear" => trace' = <<>>
    /\ call'.op /= "trace_clear" => IsPrefix(trace, trace')
    /\ call'.op = "trace_emit" =>
           /\ IsLinesInOrder(ret', trace)
           /\ trace' = trace

\* C21: line i of the trace log carries the number i: a line is numbered with
\* the count of lines before it, no call but trace_clear removes or reorders
\* lines, trace_clear empties the log so that the next line is numbered 0, and
\* trace_emit returns all lines in log order, each ending in a newline.
C21_TraceNumbering == [][LogStep]_vars

\* C21 witness: trace_emit returned the four lines, numbered 0 to 3, that one
\* traced peek had logged
C21_Witness ==
    /\ Called("trace_emit")
    /\ Len(trace) = 4
    /\ trace[4][1] = 3
    /\ Len(ret) = 16
    /\ ret[13] = 3


\* ------------------------------------- the loops, one iteration at a time
\* While a looping method runs, status is "running", call is the call, and
\* ret counts the single steps (calls of next or prev) its loop has made.

\* the method is entered: the trace block before the loop has run
Enters(op, args, c) ==
    Store(c) /\ call' = Call(op, args) /\ ret' = 0 /\ status' = "running"

\* the loop body has made one single step and left cursor c
Steps(c) == Store(c) /\ ret' = ret + 1 /\ UNCHANGED <<call, status>>

\* the loop is left and the method returns, with cursor c
Leaves(c) == Store(c) /\ status' = "ok" /\ UNCHANGED <<call, ret>>

\* the method whose loop is running
Running(op) == status = "running" /\ call.op = op

begin_next_by ==
    Built /\ \E by \in 0..MaxBy :
        Enters("next_by", <<by>>, Traced(Self, Msg("next_by", <<by>>)))
begin_prev_by ==
    Built /\ \E by \in 0..MaxBy :
        Enters("prev_by", <<by>>, Traced(Self, Msg("prev_by", <<by>>)))
begin_next_until ==
    Built /\ \E search \in SearchChars :
        Enters("next_until", <<search>>, Traced(Self, Msg("next_until", <<search>>)))
begin_prev_until ==
    Built /\ \E search \in SearchChars :
        Enters("prev_until", <<search>>, Traced(Self, Msg("prev_until", <<search>>)))

\* while count != by { self.next(); count += 1; }
iter_next_by ==
    /\ Running("next_by")
    /\ IF ret /= call.args[1] THEN Steps(next(Self)) ELSE Leaves(Self)

\* while by != 0 { self.prev(); by -= 1; }: by is call.args[1] - ret
iter_prev_by ==
    /\ Running("prev_by")
    /\ IF call.args[1] - ret /= 0 THEN Steps(prev(Self)) ELSE Leaves(Self)

\* while self.char() != search { if self.at_end() { break; } self.next(); }
iter_next_until ==
    /\ Running("next_until")
    /\ LET ch == char(Self)
       IN  IF ch.v /= call.args[1]
           THEN LET e == at_end(ch.c)
                IN  IF e.v THEN Leaves(e.c) ELSE Steps(next(e.c))
           ELSE Leaves(ch.c)

\* while self.char() != search { if self.at_start() { break; } self.prev(); }
iter_prev_until ==
    /\ Running("prev_until")
    /\ LET ch == char(Self)
       IN  IF ch.v /= call.args[1]
           THEN LET b == at_start(ch.c)
                IN  IF b.v THEN Leaves(b.c) ELSE Steps(prev(b.c))
           ELSE Leaves(ch.c)

\* an iteration of the loop that is running
IterLoop == iter_next_by \/ iter_prev_by \/ iter_next_until \/ iter_prev_until

\* a cursor just built from a non-empty source; no loop has made a step
InitLoop ==
    \E src \in Sources \ {<<>>} :
        LET c == new(src, "Init", TRUE).c
        IN  /\ source = c.source
            /\ chars = c.chars
            /\ position = c.position
            /\ max_position = c.max_position
            /\ marked_position = c.marked_position
            /\ state = c.state
            /\ collection = c.collection
            /\ collection_str = c.collection_str
            /\ tokens = c.tokens
            /\ should_trace = c.should_trace
            /\ trace = c.trace
            /\ status = "ok"
            /\ call = FirstCall("new", <<src>>)
            /\ ret = 0

NextLoop ==
    \/ begin_next_by \/ begin_prev_by \/ begin_next_until \/ begin_prev_until
    \/ iter_next_by \/ iter_prev_by \/ iter_next_until \/ iter_prev_until

\* the four looping methods run one iteration at a time; a loop that can make
\* an iteration makes it: nothing in the program suspends a running method
SpecLoop == InitLoop /\ [][NextLoop]_vars /\ WF_vars(IterLoop)

\* ------------------------------------------------------------------ C22

\* the cursor the running call started from
AtStart == [Self EXCEPT !.position = call.p0]

\* one step of a running loop
LoopStep ==
    status = "running" =>
        /\ (call.op \in {"next_by", "prev_by"} /\ status' = "ok") =>
               /\ ret = call.args[1]
               /\ call.op = "next_by" => position = next_by(AtStart, call.args[1]).position
               /\ call.op = "prev_by" => position = prev_by(AtStart, call.args[1]).position
        /\ call.op \in {"next_until", "prev_until"} => ret' <= max_position
        /\ (call.op = "next_until" /\ status' = "running") =>
               /\ position' = position + 1
               /\ position' <= max_position
        /\ (call.op = "next_until" /\ status' = "ok") =>
               position = next_until(AtStart, call.args[1]).position
        /\ (call.op = "prev_until" /\ status' = "running") =>
               /\ position' = position - 1
               /\ position' >= 0
        /\ (call.op = "prev_until" /\ status' = "ok") =>
               position = prev_until(AtStart, call.args[1]).position

\* C22: every looping method returns. next_by(n) and prev_by(n) return after
\* exactly n single steps; next_until(ch) and prev_until(ch) return after at
\* most max_position steps, whether or not ch occurs, because an iteration
\* either leaves the loop or moves position by one toward the boundary, where
\* the loop is left.
C22_LoopsTerminate ==
    /\ [][LoopStep]_vars
    /\ (status = "running") ~> (status = "ok")

\* C22 witness: next_until for a char that does not occur, called at the
\* start of a source of three chars or more, returned at the last char after
\* max_position steps
C22_Witness ==
    /\ Called("next_until")
    /\ call.args[1] \in AbsentChars
    /\ \A i \in 0..max_position : Sym(i) /= call.args[1]
    /\ call.p0 = 0
    /\ max_position >= 2
    /\ ret = max_position
    /\ position = max_position


\* ------------------------------------------------------------------ C23

\* a cursor on which nothing has been called since new has tracing off and an
\* empty log, and trace_emit on it returns the empty string
FreshIsSilent ==
    (Built /\ call.op = "new") =>
        /\ ~should_trace
        /\ trace = <<>>
        /\ trace_emit(Self) = <<>>

\* with tracing off (as it is, or after trace_off) no method appends to the
\* log, whatever lines it holds
QuietCalls ==
    Built =>
        /\ trace_off(Self).trace = trace
        /\ \A k \in Calls : Apply(k, trace_off(Self)).c.trace = trace

\* one call made while tracing is off, related to the log it found
QuietStep ==
    /\ (~should_trace /\ call'.op /= "trace_clear") => trace' = trace
    /\ call'.op = "trace_off" => (trace' = trace /\ ~should_trace')
    /\ (~should_trace /\ call'.op /= "trace_on") => ~should_trace'
    /\ (~should_trace /\ trace = <<>> /\ call'.op = "trace_emit") => ret' = <<>>

\* C23: while tracing is off, which it is after new and after trace_off, no
\* call appends to the trace log: every call but trace_clear leaves the log
\* as it was, trace_off keeps the lines logged before it, only trace_on turns
\* tracing on, and on a cursor that never called trace_on the log is empty and
\* trace_emit returns the empty string.
C23_SilentWhenOff == []FreshIsSilent /\ []QuietCalls /\ [][QuietStep]_vars

\* C23 witness: toks was called with tracing off on a cursor whose log holds
\* the four lines of an earlier traced peek
C23_Witness ==
    /\ Called("toks")
    /\ ~should_trace
    /\ Len(trace) = 4
    /\ trace[4][3][1] = "peek"

====
